---- MODULE Spec2Model ----
(***************************************************************************)
(* Bit Plane Raster Library: BitPlane, Blt and PhaseAlign.                 *)
(*                                                                         *)
(* A plane is a record of the BitPlane fields; its store is the number of  *)
(* a heap block (0 is nullptr) and a cursor is a byte offset into a block. *)
(* One bitBlt call is one action: the whole clipping, phase selection and  *)
(* scan-line loop is computed by the operator bitBlt, which threads the    *)
(* heap, the two cursors and the carry through every fetchLogicStore and   *)
(* keeps a log of the memory accesses it makes.  Blocks 1 and 2 are arrays *)
(* of the caller; the blocks of FreeStore are those new[] hands out, each  *)
(* at most once, and alloc counts the new[] and delete[] of every block.   *)
(*                                                                         *)
(* fetchLogicStore is modelled with the right operand of the assignment    *)
(* evaluated before the post-increment of the left operand.  A source byte *)
(* read outside its block has an arbitrary value, chosen per call.         *)
(***************************************************************************)
EXTENDS Integers, Sequences, FiniteSets, TLC

VARIABLES planes, heap, alloc, pc, last, prev

vars == <<planes, heap, alloc, pc, last, prev>>

----------------------------------------------------------------------------
(* Bounds of the model *)

MaxW == 20
SmallW == 5
MaxH == 2
MaxOrg == 8
MaxNeg == 1
MaxAlloc == 2
IntBits == 16

----------------------------------------------------------------------------
(* scanbyte arithmetic: 8-bit unsigned, results truncated on assignment *)

ScanBits == 8

ScanMod == 2 ^ ScanBits

ScanMax == ScanMod - 1

Byte == 0 .. ScanMax

RECURSIVE AndBits(_, _, _)
AndBits(a, b, n) ==
  IF n = 0 THEN 0
  ELSE (a % 2) * (b % 2) + 2 * AndBits(a \div 2, b \div 2, n - 1)

And4 == [a \in 0 .. 15 |-> [b \in 0 .. 15 |-> AndBits(a, b, 4)]]

And(a, b) == And4[a \div 16][b \div 16] * 16 + And4[a % 16][b % 16]

Or(a, b) == a + b - And(a, b)

Xor(a, b) == a + b - 2 * And(a, b)

Not(a) == ScanMax - a

Shl(a, n) == (a * 2 ^ n) % ScanMod

Shr(a, n) == a \div 2 ^ n

(* int arithmetic: two's complement of IntBits bits *)

IntMod == 2 ^ IntBits

IntMin == -(IntMod \div 2)

Wrap(v) == ((v - IntMin) % IntMod) + IntMin

Neg(v) == Wrap(-v)

Add(a, b) == Wrap(a + b)

Sub(a, b) == Wrap(a - b)

(* x >> 3 and x & 7 on a non-negative int *)
Sar3(v) == v \div 8

And7(v) == v % 8

----------------------------------------------------------------------------
(* Raster operation codes *)

ropMax == 16

Rop2 == 0 .. ropMax - 1

Rop1 == {"blackness", "dstInvert", "whiteness"}

(* The conversion taking whiteness to code 1 *)
Rop2OfBad(code1) ==
  CASE code1 = "blackness" -> 0
    [] code1 = "dstInvert" -> 5
    [] code1 = "whiteness" -> 1

Rop2Of(code1) ==
  CASE code1 = "blackness" -> 0
    [] code1 = "dstInvert" -> 5
    [] code1 = "whiteness" -> 15

(* The enumerators of Rop2 before ropMax, in the order of declaration *)
Rop2Names ==
  <<"rop0", "ropDSon", "ropDSna", "ropSn", "ropSDna", "ropDn", "ropDSx",
    "ropDSan", "ropDSa", "ropDSxn", "ropD", "ropDSno", "ropS", "ropSDno",
    "ropDSo", "rop1">>

(* The value of an enumerator: its position, counted from zero *)
Enumerator(n) == (CHOOSE i \in 1 .. Len(Rop2Names) : Rop2Names[i] = n) - 1

(* The enumerators defined by another one *)
Alias ==
  [notSrcErase |-> "ropDSon", notSrcCopy |-> "ropSn", srcErase |-> "ropSDna",
   srcInvert |-> "ropDSx", srcAnd |-> "ropDSa", mergePaint |-> "ropDSno",
   srcCopy |-> "ropS", srcPaint |-> "ropDSo",
   blackness |-> "rop0", dstInvert |-> "ropDn", whiteness |-> "rop1"]

srcCopy == 12

srcInvert == 6

----------------------------------------------------------------------------
(* Memory *)

NULL == 0

InBlock(h, blk, i) == blk # NULL /\ i >= 0 /\ i < Len(h[blk])

Rd(h, blk, i, oob) == IF InBlock(h, blk, i) THEN h[blk][i + 1] ELSE oob

Wr(h, blk, i, v) ==
  IF InBlock(h, blk, i) THEN [h EXCEPT ![blk][i + 1] = v] ELSE h

Ev(k, i, m) == [k |-> k, i |-> i, m |-> m]

(* F applied to the value of e, e being evaluated once *)
Bind(e, F(_)) == CHOOSE r \in {F(v) : v \in {e}} : TRUE

----------------------------------------------------------------------------
(* PhaseAlign, RightShift, LeftShift.                                      *)
(* s: [heap, store, pstore, carry, log]; c: the blit's fixed parameters    *)

(* shrdl shifting the carry the wrong amount *)
shrdlBad(c, r, g) == Or(Shl(r, c), Shr(g, c))

shrdl(c, r, g) == Or(Shl(r, 8 - c), Shr(g, c))

shldl(c, r, g) == Or(Shl(g, c), Shr(r, 8 - c))

PhaseAlignFetch(s, c) ==
  [val |-> Rd(s.heap, c.sblk, s.pstore, c.oob),
   st |-> [s EXCEPT !.pstore = @ + 1,
                    !.log = Append(@, Ev("fetch", s.pstore, 0))]]

(* RightShift::fetch returning the byte as it is stored *)
RightShiftFetchBad(s, c) ==
  LET lo == Rd(s.heap, c.sblk, s.pstore, c.oob)
  IN [val |-> lo,
      st |-> [s EXCEPT !.pstore = @ + 1,
                       !.carry = lo,
                       !.log = Append(@, Ev("fetch", s.pstore, 0))]]

RightShiftFetch(s, c) ==
  LET lo == Rd(s.heap, c.sblk, s.pstore, c.oob)
  IN [val |-> shrdl(c.shiftCount, s.carry, lo),
      st |-> [s EXCEPT !.pstore = @ + 1,
                       !.carry = lo,
                       !.log = Append(@, Ev("fetch", s.pstore, 0))]]

(* LeftShift::fetch with a post-increment in place of the pre-increment *)
LeftShiftFetchBad(s, c) ==
  LET lo == Rd(s.heap, c.sblk, s.pstore, c.oob)
  IN [val |-> shldl(c.shiftCount, lo, s.carry),
      st |-> [s EXCEPT !.pstore = @ + 1,
                       !.carry = lo,
                       !.log = Append(@, Ev("fetch", s.pstore, 0))]]

LeftShiftFetch(s, c) ==
  LET lo == Rd(s.heap, c.sblk, s.pstore + 1, c.oob)
  IN [val |-> shldl(c.shiftCount, lo, s.carry),
      st |-> [s EXCEPT !.pstore = @ + 1,
                       !.carry = lo,
                       !.log = Append(@, Ev("fetch", s.pstore + 1, 0))]]

(* LeftShift::prefetch stepping over the byte it loads *)
LeftShiftPrefetchBad(s, c) ==
  [s EXCEPT !.carry = Rd(s.heap, c.sblk, s.pstore, c.oob),
            !.pstore = @ + 1,
            !.log = Append(@, Ev("prefetch", s.pstore, 0))]

LeftShiftPrefetch(s, c) ==
  [s EXCEPT !.carry = Rd(s.heap, c.sblk, s.pstore, c.oob),
            !.log = Append(@, Ev("prefetch", s.pstore, 0))]

(* A prefetch that loads the carry for every shifting fetcher *)
prefetchBad(s, c) ==
  IF c.kind # "PhaseAlign" THEN LeftShiftPrefetch(s, c) ELSE s

prefetch(s, c) ==
  IF c.kind = "LeftShift" THEN LeftShiftPrefetch(s, c) ELSE s

fetch(s, c) ==
  CASE c.kind = "PhaseAlign" -> PhaseAlignFetch(s, c)
    [] c.kind = "RightShift" -> RightShiftFetch(s, c)
    [] c.kind = "LeftShift" -> LeftShiftFetch(s, c)

----------------------------------------------------------------------------
(* Blt: the sixteen raster operations.  D is *store, S is fetch().         *)

D(s, c) == Rd(s.heap, c.dblk, s.store, c.oob)

NoS(v, s) == [val |-> v, st |-> s]

rop0(s, c) == NoS(0, s)

ropDSon(s, c) == LET f == fetch(s, c) IN [f EXCEPT !.val = Not(Or(D(s, c), @))]

(* ropDSna computing S & ~D *)
ropDSnaBad(s, c) == LET f == fetch(s, c) IN [f EXCEPT !.val = And(@, Not(D(s, c)))]

ropDSna(s, c) == LET f == fetch(s, c) IN [f EXCEPT !.val = And(D(s, c), Not(@))]

ropSn(s, c) == LET f == fetch(s, c) IN [f EXCEPT !.val = Not(@)]

ropSDna(s, c) == LET f == fetch(s, c) IN [f EXCEPT !.val = And(@, Not(D(s, c)))]

ropDn(s, c) == NoS(Not(D(s, c)), s)

(* ropDSx computing D | S *)
ropDSxBad(s, c) == LET f == fetch(s, c) IN [f EXCEPT !.val = Or(D(s, c), @)]

ropDSx(s, c) == LET f == fetch(s, c) IN [f EXCEPT !.val = Xor(D(s, c), @)]

ropDSan(s, c) == LET f == fetch(s, c) IN [f EXCEPT !.val = Not(And(D(s, c), @))]

ropDSa(s, c) == LET f == fetch(s, c) IN [f EXCEPT !.val = And(D(s, c), @)]

ropDSxn(s, c) == LET f == fetch(s, c) IN [f EXCEPT !.val = Not(Xor(D(s, c), @))]

(* ropD evaluating its source operand *)
ropDBad(s, c) == LET f == fetch(s, c) IN [f EXCEPT !.val = D(s, c)]

ropD(s, c) == NoS(D(s, c), s)

ropDSno(s, c) == LET f == fetch(s, c) IN [f EXCEPT !.val = Or(D(s, c), Not(@))]

ropS(s, c) == fetch(s, c)

ropSDno(s, c) == LET f == fetch(s, c) IN [f EXCEPT !.val = Or(@, Not(D(s, c)))]

ropDSo(s, c) == LET f == fetch(s, c) IN [f EXCEPT !.val = Or(D(s, c), @)]

rop1(s, c) == NoS(ScanMax, s)

vrop(r, s, c) ==
  CASE r = 0 -> rop0(s, c)
    [] r = 1 -> ropDSon(s, c)
    [] r = 2 -> ropDSna(s, c)
    [] r = 3 -> ropSn(s, c)
    [] r = 4 -> ropSDna(s, c)
    [] r = 5 -> ropDn(s, c)
    [] r = 6 -> ropDSx(s, c)
    [] r = 7 -> ropDSan(s, c)
    [] r = 8 -> ropDSa(s, c)
    [] r = 9 -> ropDSxn(s, c)
    [] r = 10 -> ropD(s, c)
    [] r = 11 -> ropDSno(s, c)
    [] r = 12 -> ropS(s, c)
    [] r = 13 -> ropSDno(s, c)
    [] r = 14 -> ropDSo(s, c)
    [] r = 15 -> rop1(s, c)

fetchLogic(s, c) == vrop(c.rop, s, c)

(* fetchLogicStore(mask) storing all eight bits *)
fetchLogicStoreMaskBad(s, c, mask) ==
  Bind(fetchLogic(s, c), LAMBDA f :
    [f.st EXCEPT !.heap = Wr(@, c.dblk, s.store, f.val),
                 !.store = @ + 1,
                 !.log = Append(@, Ev("store", s.store, mask))])

fetchLogicStoreMask(s, c, mask) ==
  Bind(fetchLogic(s, c), LAMBDA f :
    [f.st EXCEPT
       !.heap = Wr(@, c.dblk, s.store,
                   Or(And(D(s, c), Not(mask)), And(mask, f.val))),
       !.store = @ + 1,
       !.log = Append(@, Ev("store", s.store, mask))])

(* fetchLogicStore() leaving the byte it should replace *)
fetchLogicStoreBad(s, c) ==
  Bind(fetchLogic(s, c), LAMBDA f :
    [f.st EXCEPT !.store = @ + 1,
                 !.log = Append(@, Ev("store", s.store, ScanMax))])

fetchLogicStore(s, c) ==
  Bind(fetchLogic(s, c), LAMBDA f :
    [f.st EXCEPT !.heap = Wr(@, c.dblk, s.store, f.val),
                 !.store = @ + 1,
                 !.log = Append(@, Ev("store", s.store, ScanMax))])

----------------------------------------------------------------------------
(* BitPlane::bitBlt: extent normalisation and clipping of one axis *)

(* Normalisation that leaves the source origin where it was *)
NormalizeBad(org, orgSrc, ext) ==
  IF ext < 0
  THEN [org |-> Sub(org, Neg(ext)), orgSrc |-> orgSrc,
        ext |-> Neg(ext), asserts |-> Neg(ext) >= 0]
  ELSE [org |-> org, orgSrc |-> orgSrc, ext |-> ext, asserts |-> TRUE]

Normalize(org, orgSrc, ext) ==
  IF ext < 0
  THEN [org |-> Sub(org, Neg(ext)), orgSrc |-> Sub(orgSrc, Neg(ext)),
        ext |-> Neg(ext), asserts |-> Neg(ext) >= 0]
  ELSE [org |-> org, orgSrc |-> orgSrc, ext |-> ext, asserts |-> TRUE]

Offset(org, orgSrc) ==
  IF org < 0
  THEN (IF org < orgSrc THEN Neg(org) ELSE Neg(orgSrc))
  ELSE (IF orgSrc < 0 THEN Neg(orgSrc) ELSE 0)

Min(a, b) == IF b < a THEN b ELSE a

(* Clipping against the destination plane alone *)
ClipAxisDstBad(n, size, sizeSrc) ==
  Bind(Offset(n.org, n.orgSrc), LAMBDA off :
    LET org == Add(n.org, off)
        orgSrc == Add(n.orgSrc, off)
        ext == Sub(n.ext, off)
        max == Sub(size, org)
        ok == ~(off >= n.ext) /\ ~(0 >= max)
    IN [ok |-> ok, org |-> org, orgSrc |-> orgSrc,
        ext |-> IF ok THEN Min(ext, max) ELSE ext,
        org0 |-> n.org, orgSrc0 |-> n.orgSrc, ext0 |-> n.ext,
        asserts0 |-> n.asserts,
        asserts |-> n.asserts /\ off >= 0
                    /\ (~(off >= n.ext) => org >= 0 /\ orgSrc >= 0 /\ 0 < ext)])

(* Clipping against the source plane alone *)
ClipAxisBad(n, size, sizeSrc) ==
  Bind(Offset(n.org, n.orgSrc), LAMBDA off :
    LET org == Add(n.org, off)
        orgSrc == Add(n.orgSrc, off)
        ext == Sub(n.ext, off)
        maxSrc == Sub(sizeSrc, orgSrc)
        ok == ~(off >= n.ext) /\ ~(0 >= maxSrc)
    IN [ok |-> ok, org |-> org, orgSrc |-> orgSrc,
        ext |-> IF ok THEN Min(ext, maxSrc) ELSE ext,
        org0 |-> n.org, orgSrc0 |-> n.orgSrc, ext0 |-> n.ext,
        asserts0 |-> n.asserts,
        asserts |-> n.asserts /\ off >= 0
                    /\ (~(off >= n.ext) => org >= 0 /\ orgSrc >= 0 /\ 0 < ext)])

(* n: the normalised origins and extent; size, sizeSrc: the planes' width  *)
(* or height.  ok is FALSE where the code returns false.                  *)
ClipAxis(n, size, sizeSrc) ==
  Bind(Offset(n.org, n.orgSrc), LAMBDA off :
    LET org == Add(n.org, off)
        orgSrc == Add(n.orgSrc, off)
        ext == Sub(n.ext, off)
        max == Sub(size, org)
        maxSrc == Sub(sizeSrc, orgSrc)
        ok == ~(off >= n.ext) /\ ~(0 >= max) /\ ~(0 >= maxSrc)
    IN [ok |-> ok, org |-> org, orgSrc |-> orgSrc,
        ext |-> IF ok THEN Min(Min(ext, max), maxSrc) ELSE ext,
        org0 |-> n.org, orgSrc0 |-> n.orgSrc, ext0 |-> n.ext,
        asserts0 |-> n.asserts,
        asserts |-> n.asserts /\ off >= 0
                    /\ (~(off >= n.ext) => org >= 0 /\ orgSrc >= 0 /\ 0 < ext)])

(* findBits returning the start of the scan line *)
findBitsBad(p, x, y) == p.widthScanBytes * y

findBits(p, x, y) == p.widthScanBytes * y + Sar3(x)

----------------------------------------------------------------------------
(* BitPlane::bitBlt: the scan-line loop *)

RECURSIVE MiddleLoop(_, _, _)
MiddleLoop(s, c, scanByteCount) ==
  IF scanByteCount - 1 = 0 THEN s
  ELSE Bind(fetchLogicStore(s, c), LAMBDA t :
         MiddleLoop(t, c, scanByteCount - 1))

RowStart(s) == [s EXCEPT !.log = Append(@, Ev("row", s.store, s.pstore))]

(* The end of a scan line stepping one byte too far *)
RowEndBad(s, c) ==
  [s EXCEPT !.store = @ + c.displace + 1, !.pstore = @ + c.displaceSrc]

RowEnd(s, c) ==
  [s EXCEPT !.store = @ + c.displace, !.pstore = @ + c.displaceSrc]

(* A scan line that stores its first byte whole *)
ScanLineBad(s, c) ==
  Bind(prefetch(RowStart(s), c), LAMBDA s1 :
    IF c.extraScanByteCount = 0
    THEN Bind(fetchLogicStoreMask(s1, c, c.scanExtMask),
              LAMBDA s2 : RowEnd(s2, c))
    ELSE Bind(fetchLogicStoreMask(s1, c, ScanMax), LAMBDA s2 :
           Bind(MiddleLoop(s2, c, c.extraScanByteCount), LAMBDA s3 :
             Bind(fetchLogicStoreMask(s3, c, c.scanExtMask), LAMBDA s4 :
               RowEnd(s4, c)))))

ScanLine(s, c) ==
  Bind(prefetch(RowStart(s), c), LAMBDA s1 :
    IF c.extraScanByteCount = 0
    THEN Bind(fetchLogicStoreMask(s1, c, And(c.scanOrgMask, c.scanExtMask)),
              LAMBDA s2 : RowEnd(s2, c))
    ELSE Bind(fetchLogicStoreMask(s1, c, c.scanOrgMask), LAMBDA s2 :
           Bind(MiddleLoop(s2, c, c.extraScanByteCount), LAMBDA s3 :
             Bind(fetchLogicStoreMask(s3, c, c.scanExtMask), LAMBDA s4 :
               RowEnd(s4, c)))))

(* A loop that runs no scan line *)
ScanLinesBad(s, c, cy) == s

RECURSIVE ScanLines(_, _, _)
ScanLines(s, c, cy) ==
  IF cy = 0 THEN s
  ELSE Bind(ScanLine(s, c), LAMBDA t : ScanLines(t, c, cy - 1))

PhaseKind(shiftCount) ==
  IF shiftCount < 0 THEN "LeftShift"
  ELSE IF shiftCount = 0 THEN "PhaseAlign" ELSE "RightShift"

(* The shift count taken modulo 8 *)
ShiftOfBad(shiftCount) == shiftCount % 8

ShiftOf(shiftCount) == IF shiftCount < 0 THEN -shiftCount ELSE shiftCount

(* A setup whose source displacement forgets the byte of the last fetch *)
BltSetupBad(d, sr, x, cx, xSrc, rop2, oob) ==
  LET shiftCount == And7(x) - And7(xSrc)
      xMax == x + cx - 1
      extraScanByteCount == Sar3(xMax) - Sar3(x)
  IN [dblk |-> d.store, sblk |-> sr.store, rop |-> rop2, oob |-> oob,
      kind |-> PhaseKind(shiftCount), shiftCount |-> ShiftOf(shiftCount),
      extraScanByteCount |-> extraScanByteCount,
      scanOrgMask |-> Shr(ScanMax, And7(x)),
      scanExtMask |-> Shl(ScanMax, 7 - And7(xMax)),
      displace |-> d.widthScanBytes - 1 - extraScanByteCount,
      displaceSrc |-> sr.widthScanBytes - extraScanByteCount]

(* The Blt and PhaseAlign objects bitBlt sets up, and its constants *)
BltSetup(d, sr, x, cx, xSrc, rop2, oob) ==
  LET shiftCount == And7(x) - And7(xSrc)
      xMax == x + cx - 1
      extraScanByteCount == Sar3(xMax) - Sar3(x)
  IN [dblk |-> d.store, sblk |-> sr.store, rop |-> rop2, oob |-> oob,
      kind |-> PhaseKind(shiftCount), shiftCount |-> ShiftOf(shiftCount),
      extraScanByteCount |-> extraScanByteCount,
      scanOrgMask |-> Shr(ScanMax, And7(x)),
      scanExtMask |-> Shl(ScanMax, 7 - And7(xMax)),
      displace |-> d.widthScanBytes - 1 - extraScanByteCount,
      displaceSrc |-> sr.widthScanBytes - 1 - extraScanByteCount]

(* The destination cursor starting one byte late *)
CursorsBad(h, d, sr, X, Y) ==
  [heap |-> h, store |-> findBits(d, X.org, Y.org) + 1,
   pstore |-> findBits(sr, X.orgSrc, Y.orgSrc), carry |-> 0, log |-> <<>>]

Cursors(h, d, sr, X, Y) ==
  [heap |-> h, store |-> findBits(d, X.org, Y.org),
   pstore |-> findBits(sr, X.orgSrc, Y.orgSrc), carry |-> 0, log |-> <<>>]

Result(ret, X, Y, c, e) ==
  [ret |-> ret, heap |-> e.heap, log |-> e.log,
   x0 |-> X.org0, y0 |-> Y.org0, xs0 |-> X.orgSrc0, ys0 |-> Y.orgSrc0,
   cx0 |-> X.ext0, cy0 |-> Y.ext0,
   x |-> X.org, y |-> Y.org, cx |-> X.ext, cy |-> Y.ext,
   xSrc |-> X.orgSrc, ySrc |-> Y.orgSrc,
   kind |-> c.kind, shiftCount |-> c.shiftCount,
   extra |-> c.extraScanByteCount,
   asserts |-> X.asserts /\ Y.asserts0 /\ (X.ok => Y.asserts)]

NoBlt == [kind |-> "none", shiftCount |-> 0, extraScanByteCount |-> 0]

(* The result of bitBlt(x, y, cx, cy, bitPlaneSrc, xSrc, ySrc, rop2) called *)
(* on plane d with source plane sr in heap h.  An assertion that fails     *)
(* ends the call (abort) before any byte is read or stored.                *)
bitBlt(h, d, sr, x, y, cx, cy, xSrc, ySrc, rop2, oob) ==
  Bind(ClipAxis(Normalize(x, xSrc, cx), d.width, sr.width), LAMBDA X :
    Bind(ClipAxis(Normalize(y, ySrc, cy), d.height, sr.height), LAMBDA Y :
      IF ~(X.ok /\ Y.ok) \/ ~(X.asserts /\ Y.asserts)
      THEN Result(FALSE, X, Y, NoBlt, [heap |-> h, log |-> <<>>])
      ELSE Bind(BltSetup(d, sr, X.org, X.ext, X.orgSrc, rop2, oob), LAMBDA c :
             Bind(ScanLines(Cursors(h, d, sr, X, Y), c, Y.ext), LAMBDA e :
               Result(TRUE, X, Y, c, e)))))

----------------
(* State: two planes "A" and "B"; block 1 and block 2 are the arrays the   *)
(* caller hands to their constructors.                                      *)

PlaneIds == {"A", "B"}

BlockOf(p) == IF p = "A" THEN 1 ELSE 2

Blocks == {BlockOf(p) : p \in PlaneIds}

Abs(v) == IF v < 0 THEN Neg(v) ELSE v

(* The scan-line size without the byte of the last, partial column *)
ScanBytesBad(cx) == Sar3(cx)

ScanBytes(cx) == Sar3(cx) + (IF And7(cx) # 0 THEN 1 ELSE 0)

(* BitPlane() *)
DefaultPlane ==
  [width |-> 0, height |-> 0, widthScanBytes |-> 0, store |-> NULL,
   autoDelete |-> FALSE]

(* A constructor that takes a negative extent for an empty plane *)
ParamPlaneBad(cx, cy, blk) ==
  IF cx > 0 /\ cy > 0
  THEN [width |-> cx, height |-> cy, widthScanBytes |-> ScanBytes(cx),
        store |-> blk, autoDelete |-> FALSE]
  ELSE [width |-> 0, height |-> 0, widthScanBytes |-> 0, store |-> blk,
        autoDelete |-> FALSE]

(* BitPlane(cx, cy, v), v being block blk *)
ParamPlane(cx, cy, blk) ==
  LET ax == Abs(cx)
      ay == Abs(cy)
  IN IF ax > 0 /\ ay > 0
     THEN [width |-> ax, height |-> ay, widthScanBytes |-> ScanBytes(ax),
           store |-> blk, autoDelete |-> FALSE]
     ELSE [width |-> 0, height |-> 0, widthScanBytes |-> 0, store |-> blk,
           autoDelete |-> FALSE]

(* ~BitPlane() *)
DestroyedPlane(p) ==
  [p EXCEPT !.width = 0, !.height = 0, !.autoDelete = FALSE, !.store = NULL]

(* delete[] store whoever owns it *)
ReleaseBad(al, p) ==
  IF p.store # NULL
  THEN [al EXCEPT ![p.store].deletes = @ + 1]
  ELSE al

(* delete[] store, when the plane owns it *)
Release(al, p) ==
  IF p.autoDelete /\ p.store # NULL
  THEN [al EXCEPT ![p.store].deletes = @ + 1]
  ELSE al

(* The blocks new[] can hand out, and the one it hands out next *)
FreeStore == 3 .. 2 + MaxAlloc

Fresh == {b \in FreeStore : alloc[b].news = 0}

NewBlock == CHOOSE b \in Fresh : \A o \in Fresh : b <= o

(* create leaving the plane without the ownership of its block *)
CreatedPlaneBad(cx, cy, blk) ==
  [width |-> Abs(cx), height |-> Abs(cy),
   widthScanBytes |-> ScanBytes(Abs(cx)), store |-> blk, autoDelete |-> FALSE]

(* The plane after a successful create(cx, cy) that got block blk *)
CreatedPlane(cx, cy, blk) ==
  [width |-> Abs(cx), height |-> Abs(cy),
   widthScanBytes |-> ScanBytes(Abs(cx)), store |-> blk, autoDelete |-> TRUE]

(* The plane after create(cx, cy) whose new[] failed *)
FailedPlane(p, cx) ==
  [DestroyedPlane(p) EXCEPT !.widthScanBytes = ScanBytes(Abs(cx))]

(* memcpy(v, copy.store, n) *)
CopyBytes(h, blk, n) == [i \in 1 .. n |-> Rd(h, blk, i - 1, 0)]

(* A copy that keeps the store of the original *)
CopiedPlaneBad(copy, v) ==
  [width |-> copy.width, height |-> copy.height,
   widthScanBytes |-> copy.widthScanBytes, store |-> copy.store,
   autoDelete |-> copy.autoDelete]

(* BitPlane(copy), v being the store the constructor settles on *)
CopiedPlane(copy, v) ==
  [width |-> copy.width, height |-> copy.height,
   widthScanBytes |-> copy.widthScanBytes, store |-> v,
   autoDelete |-> copy.autoDelete]

(* The contents new[] leaves in a block of n bytes, one for each fill *)
Garbage(fill, n) == [i \in 1 .. n |-> (fill + 37 * i * fill) % ScanMod]

(* The arrays callers pass: n bytes following one of a few bit patterns *)
Seeds(p) == IF p = "A" THEN {53} ELSE {202, 117}

Pattern(seed, n) == [i \in 1 .. n |-> (seed + 83 * i + 7 * i * i) % ScanMod]

BufferLen(cx, cy) ==
  IF cx = 0 \/ cy = 0 THEN 1 ELSE ScanBytes(Abs(cx)) * Abs(cy)

(* The values a byte outside the arrays may hold *)
Beyond == {0, ScanMax}

NoCall ==
  [op |-> "none", dst |-> "A", src |-> "A", x |-> 0, y |-> 0, cx |-> 0,
   cy |-> 0, xSrc |-> 0, ySrc |-> 0, rop2 |-> 0, rop1 |-> "none",
   heap0 |-> <<>>, res |-> [ret |-> FALSE]]

Call(op, d, sr, a, code1, r) ==
  [op |-> op, dst |-> d, src |-> sr, x |-> a.x, y |-> a.y, cx |-> a.cx,
   cy |-> a.cy, xSrc |-> a.xSrc, ySrc |-> a.ySrc, rop2 |-> a.rop2,
   rop1 |-> code1, heap0 |-> heap, res |-> [r EXCEPT !.heap = <<>>]]

Args(x, y, cx, cy, xSrc, ySrc, rop2) ==
  [x |-> x, y |-> y, cx |-> cx, cy |-> cy, xSrc |-> xSrc, ySrc |-> ySrc,
   rop2 |-> rop2]

ReadsBeyond(h, sblk, log) ==
  \E j \in 1 .. Len(log) :
    log[j].k \in {"fetch", "prefetch"} /\ ~InBlock(h, sblk, log[j].i)

(* The outcomes of one call: one per value of the bytes it reads outside   *)
(* the source array                                                        *)
Outcomes(d, sr, a) ==
  Bind(bitBlt(heap, planes[d], planes[sr], a.x, a.y, a.cx, a.cy,
              a.xSrc, a.ySrc, a.rop2, 0), LAMBDA r0 :
    IF ReadsBeyond(heap, planes[sr].store, r0.log)
    THEN {r0} \cup {bitBlt(heap, planes[d], planes[sr], a.x, a.y, a.cx,
                           a.cy, a.xSrc, a.ySrc, a.rop2, b) :
                      b \in Beyond \ {0}}
    ELSE {r0})

----------------------------------------------------------------------------
(* Actions *)

Init ==
  /\ planes = [p \in PlaneIds |-> DefaultPlane]
  /\ heap = [b \in Blocks \cup FreeStore |-> <<>>]
  /\ alloc = [b \in Blocks \cup FreeStore |-> [news |-> 0, deletes |-> 0]]
  /\ pc = "A"
  /\ last = NoCall
  /\ prev = NoCall

NextPc == IF pc = "A" THEN "B" ELSE "ready"

(* The record of a constructor, create or destructor call on plane p *)
LifeCall(op, p, q, cx, cy, ret, threw) ==
  [NoCall EXCEPT !.op = op, !.dst = p, !.src = q, !.cx = cx, !.cy = cy,
                 !.res = [ret |-> ret, threw |-> threw]]

(* BitPlane p; *)
ConstructDefault(p) ==
  /\ pc = p
  /\ planes' = [planes EXCEPT ![p] = DefaultPlane]
  /\ pc' = NextPc
  /\ UNCHANGED <<heap, alloc, last, prev>>

(* scanbyte v[] = {...}; BitPlane p(cx, cy, v); *)
ConstructParam(p, cx, cy, seed) ==
  /\ pc = p
  /\ heap' = [heap EXCEPT ![BlockOf(p)] = Pattern(seed, BufferLen(cx, cy))]
  /\ planes' = [planes EXCEPT ![p] = ParamPlane(cx, cy, BlockOf(p))]
  /\ pc' = NextPc
  /\ UNCHANGED <<alloc, last, prev>>

(* scanbyte v[] = {...}; BitPlane p(cx, cy, v); with the bytes of v given *)
ConstructArray(p, cx, cy, v) ==
  /\ pc = p
  /\ heap' = [heap EXCEPT ![BlockOf(p)] = v]
  /\ planes' = [planes EXCEPT ![p] = ParamPlane(cx, cy, BlockOf(p))]
  /\ pc' = NextPc
  /\ UNCHANGED <<alloc, last, prev>>

(* p.~BitPlane() *)
Destroy(p) ==
  /\ pc = "ready"
  /\ planes[p].width > 0
  /\ planes' = [planes EXCEPT ![p] = DestroyedPlane(planes[p])]
  /\ alloc' = Release(alloc, planes[p])
  /\ last' = LifeCall("destroy", p, p, 0, 0, TRUE, FALSE)
  /\ prev' = last
  /\ UNCHANGED <<heap, pc>>

(* d.bitBlt(x, y, cx, cy, sr, xSrc, ySrc, rop2) *)
BitBlt(d, sr, a) ==
  /\ \E r \in Outcomes(d, sr, a) :
       /\ heap' = r.heap
       /\ last' = Call("bitBlt", d, sr, a, "none", r)
  /\ prev' = last
  /\ UNCHANGED <<planes, alloc>>

(* d.bitBlt(x, y, cx, cy, rop1) *)
BitBltUnary(d, x, y, cx, cy, code1) ==
  /\ \E r \in Outcomes(d, d, Args(x, y, cx, cy, x, y, Rop2Of(code1))) :
       /\ heap' = r.heap
       /\ last' = Call("bitBlt1", d, d,
                       Args(x, y, cx, cy, x, y, Rop2Of(code1)), code1, r)
  /\ prev' = last
  /\ UNCHANGED <<planes, alloc>>

(* p.create(cx, cy), new[] leaving the contents of fill in the block *)
Create(p, cx, cy, fill) ==
  /\ IF Abs(cx) <= 0 \/ Abs(cy) <= 0
     THEN /\ last' = LifeCall("create", p, p, cx, cy, FALSE, FALSE)
          /\ UNCHANGED <<planes, heap, alloc>>
     ELSE \/ /\ Fresh # {}
             /\ heap' = [heap EXCEPT ![NewBlock] =
                           Garbage(fill, ScanBytes(Abs(cx)) * Abs(cy))]
             /\ alloc' = [Release(alloc, planes[p]) EXCEPT
                            ![NewBlock].news = @ + 1]
             /\ planes' = [planes EXCEPT ![p] = CreatedPlane(cx, cy, NewBlock)]
             /\ last' = LifeCall("create", p, p, cx, cy, TRUE, FALSE)
          \/ /\ alloc' = Release(alloc, planes[p])
             /\ planes' = [planes EXCEPT ![p] = FailedPlane(planes[p], cx)]
             /\ last' = LifeCall("create", p, p, cx, cy, FALSE, TRUE)
             /\ UNCHANGED heap
  /\ prev' = last

(* BitPlane p(q); *)
ConstructCopy(p, q) ==
  /\ pc = p
  /\ IF planes[q].autoDelete
     THEN /\ Fresh # {}
          /\ heap' = [heap EXCEPT ![NewBlock] =
                        CopyBytes(heap, planes[q].store,
                                  planes[q].widthScanBytes * planes[q].height)]
          /\ alloc' = [alloc EXCEPT ![NewBlock].news = @ + 1]
          /\ planes' = [planes EXCEPT ![p] = CopiedPlane(planes[q], NewBlock)]
     ELSE /\ planes' = [planes EXCEPT ![p] = CopiedPlane(planes[q], planes[q].store)]
          /\ UNCHANGED <<heap, alloc>>
  /\ pc' = NextPc
  /\ last' = LifeCall("copy", p, q, 0, 0, TRUE, FALSE)
  /\ prev' = last

----------------------------------------------------------------------------
(* The calls the model makes *)

Orgs == -MaxNeg .. MaxOrg

OrgsY == -MaxNeg .. MaxH

Extents == {-3, 0, 1, 3, 12, MaxW + 1}

ExtentsY == {-2, 0, 1, MaxH + 1}

Dims == {<<MaxW, MaxH>>, <<SmallW, 1>>, <<-SmallW, 1>>}

ArgsX ==
  {Args(x, 0, cx, MaxH, xSrc, 0, rop2) :
     x \in Orgs, xSrc \in Orgs, cx \in Extents, rop2 \in Rop2}

ArgsY ==
  {Args(xx[1], y, xx[3], cy, xx[2], ySrc, rop2) :
     xx \in {<<3, 1, 12>>, <<1, 6, 4>>}, y \in OrgsY, ySrc \in OrgsY,
     cy \in ExtentsY, rop2 \in Rop2}

(* Specification Spec: two non-empty planes over distinct arrays, then one *)
(* binary or unary blit                                                    *)

Construct ==
  /\ pc \in PlaneIds
  /\ \E dim \in Dims, seed \in Seeds(pc) : ConstructParam(pc, dim[1], dim[2], seed)

Blit ==
  /\ pc = "ready"
  /\ pc' = "once"
  /\ \E a \in ArgsX \cup ArgsY : BitBlt("A", "B", a)

BlitUnary ==
  /\ pc = "ready"
  /\ pc' = "once"
  /\ \E x \in Orgs, cx \in Extents, y \in OrgsY, cy \in ExtentsY,
        code1 \in Rop1 :
       BitBltUnary("A", x, y, cx, cy, code1)

Next == Construct \/ Blit \/ BlitUnary

Spec == Init /\ [][Next]_vars

(* Specification SpecEmpty: planes that are default-constructed, built     *)
(* with a zero extent or destroyed take part in a blit                     *)

DimsEmpty == {<<MaxW, MaxH>>, <<0, MaxH>>, <<MaxW, 0>>}

ArgsEmpty == {a \in ArgsX : a.xSrc \in {-MaxNeg, 0, 3}} \cup ArgsY

ConstructAny ==
  /\ pc \in PlaneIds
  /\ \/ ConstructDefault(pc)
     \/ \E dim \in DimsEmpty : ConstructParam(pc, dim[1], dim[2], 53)

DestroyAny == \E p \in PlaneIds : Destroy(p)

BlitEmpty ==
  /\ pc = "ready"
  /\ pc' = "once"
  /\ \E a \in ArgsEmpty : BitBlt("A", "B", a)

NextEmpty == ConstructAny \/ DestroyAny \/ BlitEmpty

SpecEmpty == Init /\ [][NextEmpty]_vars

(* Specification SpecPair: a blit followed by the same blit again, or by   *)
(* the blit back from destination to source                                *)

ArgsPair == {a \in ArgsX \cup ArgsY : a.rop2 \in {srcInvert, srcCopy}}

BlitFirst ==
  /\ pc = "ready"
  /\ pc' = "once"
  /\ \E a \in ArgsPair : BitBlt("A", "B", a)

BlitAgain ==
  /\ pc = "once"
  /\ pc' = "twice"
  /\ BitBlt(last.dst, last.src,
            Args(last.x, last.y, last.cx, last.cy, last.xSrc, last.ySrc,
                 last.rop2))

BlitBack ==
  /\ pc = "once"
  /\ pc' = "twice"
  /\ BitBlt(last.src, last.dst,
            Args(last.xSrc, last.ySrc, last.cx, last.cy, last.x, last.y,
                 last.rop2))

NextPair == Construct \/ BlitFirst \/ BlitAgain \/ BlitBack

SpecPair == Init /\ [][NextPair]_vars

(* Specification SpecLife: the planes are constructed (B possibly as a     *)
(* copy of A), created and destroyed in any order, and one blit follows    *)

DimsLife == {<<SmallW, MaxH>>, <<-9, 1>>, <<0, MaxH>>}

DimsCreate == {<<0, 0>>, <<SmallW, 0>>, <<9, MaxH>>, <<-SmallW, -1>>}

ArgsLife ==
  {Args(x, 0, cx, MaxH, xSrc, 0, srcCopy) :
     x \in {3}, cx \in {-3, 4}, xSrc \in {1}}

ConstructLife ==
  /\ pc \in PlaneIds
  /\ \/ ConstructDefault(pc)
     \/ \E dim \in DimsLife : ConstructParam(pc, dim[1], dim[2], 53)
     \/ pc = "B" /\ ConstructCopy("B", "A")

CreateLife ==
  /\ pc \in {"B", "ready"}
  /\ \E p \in (IF pc = "B" THEN {"A"} ELSE PlaneIds), dim \in DimsCreate :
       Create(p, dim[1], dim[2], 165)
  /\ UNCHANGED pc

BlitLife ==
  /\ pc = "ready"
  /\ pc' = "once"
  /\ \/ \E d \in PlaneIds, a \in ArgsLife :
          BitBlt(d, CHOOSE o \in PlaneIds : o # d, a)
     \/ \E d \in PlaneIds, code1 \in {"dstInvert", "whiteness"} :
          BitBltUnary(d, 2, 0, 9, MaxH, code1)

NextLife == ConstructLife \/ CreateLife \/ DestroyAny \/ BlitLife

SpecLife == Init /\ [][NextLife]_vars

(* Specification SpecRead: plane A is a scratch plane of one pixel, into   *)
(* which one pixel of plane B is copied                                    *)

ScratchSeeds == {165, 166, 251}

DimsRead == {<<MaxW, MaxH>>, <<SmallW, 1>>, <<9, MaxH>>}

ConstructRead ==
  /\ pc \in PlaneIds
  /\ IF pc = "A"
     THEN \E seed \in ScratchSeeds : ConstructParam("A", 1, 1, seed)
     ELSE \E dim \in DimsRead, seed \in Seeds("B") :
            ConstructParam("B", dim[1], dim[2], seed)

ReadBack ==
  /\ pc = "ready"
  /\ pc' = "once"
  /\ \E x \in 0 .. planes["B"].width - 1, y \in 0 .. planes["B"].height - 1 :
       BitBlt("A", "B", Args(0, 0, 1, 1, x, y, srcCopy))

NextRead == ConstructRead \/ ReadBack

SpecRead == Init /\ [][NextRead]_vars

(* Specification SpecTile: the pattern plane A is copied to every tile of  *)
(* the created image B, scan line of tiles by scan line, left to right     *)

Patterns ==
  {<<2, 2, <<64, 128>>>>, <<2, 2, <<127, 191>>>>, <<3, 2, <<160, 95>>>>,
   <<1, 1, <<128>>>>, <<SmallW, 1, <<83>>>>}

Images == {<<8, 8>>, <<12, 3>>, <<SmallW, MaxH>>}

Fills == {0, 165, ScanMax}

ConstructTile ==
  /\ pc \in PlaneIds
  /\ IF pc = "A"
     THEN \E pat \in Patterns : ConstructArray("A", pat[1], pat[2], pat[3])
     ELSE ConstructDefault("B")

CreateTile ==
  /\ pc = "ready"
  /\ pc' = "tiling"
  /\ \E dim \in Images, fill \in Fills : Create("B", dim[1], dim[2], fill)

(* for (y = 0; y < H; y += ph) for (x = 0; x < W; x += pw) *)
TileOrg ==
  IF last.op = "create" THEN <<0, 0>>
  ELSE IF last.x + planes["A"].width < planes["B"].width
       THEN <<last.x + planes["A"].width, last.y>>
       ELSE <<0, last.y + planes["A"].height>>

Tile ==
  /\ pc = "tiling"
  /\ TileOrg[2] < planes["B"].height
  /\ BitBlt("B", "A", Args(TileOrg[1], TileOrg[2], planes["A"].width,
                           planes["A"].height, 0, 0, srcCopy))
  /\ UNCHANGED pc

TileEnd ==
  /\ pc = "tiling"
  /\ last.op = "bitBlt"
  /\ TileOrg[2] >= planes["B"].height
  /\ pc' = "tiled"
  /\ UNCHANGED <<planes, heap, alloc, last, prev>>

NextTile == ConstructTile \/ CreateTile \/ Tile \/ TileEnd

SpecTile == Init /\ [][NextTile]_vars

(* Specification SpecUnit: one member function of a fetcher or of Blt is   *)
(* called on cursors into the arrays of A (destination) and B (source)     *)

UnitBytes == {0, 15, 51, 85, 202, ScanMax}

Carries == {0, 90, 129, ScanMax}

Masks == {0, 1, 31, 60, 248, ScanMax}

Kinds == {"PhaseAlign", "RightShift", "LeftShift"}

Shifts(kind) == IF kind = "PhaseAlign" THEN {0} ELSE 1 .. 7

ConstructUnit ==
  /\ pc \in PlaneIds
  /\ \E b \in UnitBytes :
       IF pc = "A"
       THEN ConstructArray("A", 16, 1, <<b, 165>>)
       ELSE ConstructArray("B", 24, 1, <<60, b, 195>>)

(* The Blt of rop2 r with a fetcher of the kind and shiftCount given *)
UnitBlt(r, kind, k) ==
  [BltSetup(planes["A"], planes["B"], 0, 8, 0, r, 0) EXCEPT
     !.kind = kind, !.shiftCount = k]

UnitCursors(dpos, pos, carry) ==
  [heap |-> heap, store |-> dpos, pstore |-> pos, carry |-> carry,
   log |-> <<>>]

(* The record of a call that took cursors s0 to t and returned val *)
UnitCall(op, c, s0, mask, val, t) ==
  [NoCall EXCEPT
     !.op = op, !.dst = "A", !.src = "B", !.rop2 = c.rop, !.heap0 = heap,
     !.res = [ret |-> TRUE, kind |-> c.kind, shiftCount |-> c.shiftCount,
              carry0 |-> s0.carry, pstore0 |-> s0.pstore, store0 |-> s0.store,
              mask |-> mask, val |-> val, carry |-> t.carry,
              pstore |-> t.pstore, store |-> t.store, log |-> t.log]]

UnitDone(call, h) ==
  /\ pc = "ready"
  /\ pc' = "once"
  /\ last' = call
  /\ prev' = last
  /\ heap' = h
  /\ UNCHANGED <<planes, alloc>>

(* phaseAlign->fetch() *)
StepFetch ==
  \E kind \in Kinds, pos \in 0 .. 1, carry \in Carries :
    \E k \in Shifts(kind) :
      LET c == UnitBlt(srcCopy, kind, k)
          s0 == UnitCursors(0, pos, carry)
          f == fetch(s0, c)
      IN UnitDone(UnitCall("fetch", c, s0, 0, f.val, f.st), heap)

(* phaseAlign->prefetch() *)
StepPrefetch ==
  \E kind \in Kinds, pos \in 0 .. 1, carry \in Carries :
    \E k \in Shifts(kind) :
      LET c == UnitBlt(srcCopy, kind, k)
          s0 == UnitCursors(0, pos, carry)
          t == prefetch(s0, c)
      IN UnitDone(UnitCall("prefetch", c, s0, 0, 0, t), heap)

(* blt.fetchLogicStore(mask) *)
StepStoreMask ==
  \E r \in Rop2, kind \in Kinds, mask \in Masks, dpos \in 0 .. 1 :
    \E k \in Shifts(kind) \cap {0, 3} :
      LET c == UnitBlt(r, kind, k)
          s0 == UnitCursors(dpos, 1 - dpos, 90)
          t == fetchLogicStoreMask(s0, c, mask)
      IN UnitDone(UnitCall("storeMask", c, s0, mask, 0, t), t.heap)

(* blt.fetchLogicStore() *)
StepStore ==
  \E r \in Rop2, kind \in Kinds, dpos \in 0 .. 1 :
    \E k \in Shifts(kind) \cap {0, 3} :
      LET c == UnitBlt(r, kind, k)
          s0 == UnitCursors(dpos, 1 - dpos, 90)
          t == fetchLogicStore(s0, c)
      IN UnitDone(UnitCall("store", c, s0, ScanMax, 0, t), t.heap)

(* (this->*vrop[r])() with an in-phase fetcher *)
StepRop ==
  \E r \in Rop2 :
    LET c == UnitBlt(r, "PhaseAlign", 0)
        s0 == UnitCursors(0, 1, 0)
        f == vrop(r, s0, c)
    IN UnitDone(UnitCall("rop", c, s0, 0, f.val, f.st), heap)

NextUnit ==
  ConstructUnit \/ StepFetch \/ StepPrefetch \/ StepStoreMask \/ StepStore
    \/ StepRop

SpecUnit == Init /\ [][NextUnit]_vars

(* Specification SpecInt: a blit whose arguments lie at the ends of the    *)
(* range of int                                                            *)

IntMax == -IntMin - 1

ExtremeInts == {IntMin, IntMin + 1, -1, 0, 3, IntMax}

ArgsInt ==
  {Args(x, yy[1], cx, yy[2], xSrc, yy[3], srcCopy) :
     x \in ExtremeInts, cx \in ExtremeInts, xSrc \in ExtremeInts,
     yy \in {<<0, MaxH, 0>>, <<0, IntMin, 0>>, <<IntMin, MaxH, 0>>,
             <<-1, 1, IntMax>>}}

ConstructInt ==
  /\ pc \in PlaneIds
  /\ ConstructParam(pc, SmallW, MaxH, 53)

BlitInt ==
  /\ pc = "ready"
  /\ pc' = "once"
  /\ \E a \in ArgsInt : BitBlt("A", "B", a)

NextInt == ConstructInt \/ BlitInt

SpecInt == Init /\ [][NextInt]_vars

----------------------------------------------------------------------------
(* Vocabulary of the properties: pixels, the requested rectangle and its   *)
(* intersection with both planes, stated without the clipping code         *)

Dst == planes[last.dst]

Src == planes[last.src]

IsBlt == last.op = "bitBlt"

IsUnary == last.op = "bitBlt1"

Log == last.res.log

(* Pixel (X, Y) of plane p in heap h: bit 7 - (X & 7) of byte              *)
(* store[widthScanBytes * Y + (X >> 3)]                                    *)
Pixel(h, p, X, Y) ==
  (Rd(h, p.store, p.widthScanBytes * Y + (X \div 8), 0)
     \div 2 ^ (7 - (X % 8))) % 2

(* Every bit position of the destination store *)
DstBits ==
  {<<X, Y>> : X \in 0 .. Dst.widthScanBytes * 8 - 1, Y \in 0 .. Dst.height - 1}

RectOrg(org, ext) == IF ext < 0 THEN org + ext ELSE org

RectExt(ext) == IF ext < 0 THEN -ext ELSE ext

InAxis(V, org, ext, orgSrc, size, sizeSrc) ==
  /\ RectOrg(org, ext) <= V
  /\ V < RectOrg(org, ext) + RectExt(ext)
  /\ 0 <= V
  /\ V < size
  /\ 0 <= V + (orgSrc - org)
  /\ V + (orgSrc - org) < sizeSrc

(* (X, Y) lies in the requested rectangle, in the destination plane, and   *)
(* its source pixel lies in the source plane                              *)
InClip(X, Y) ==
  /\ InAxis(X, last.x, last.cx, last.xSrc, Dst.width, Src.width)
  /\ InAxis(Y, last.y, last.cy, last.ySrc, Dst.height, Src.height)

ClipSet == {b \in DstBits : InClip(b[1], b[2])}

(* The raster operations of the table, on one bit lane *)
RopBit(r, d, s) ==
  CASE r = 0 -> 0
    [] r = 1 -> 1 - (IF d + s > 0 THEN 1 ELSE 0)
    [] r = 2 -> d * (1 - s)
    [] r = 3 -> 1 - s
    [] r = 4 -> s * (1 - d)
    [] r = 5 -> 1 - d
    [] r = 6 -> (d + s) % 2
    [] r = 7 -> 1 - d * s
    [] r = 8 -> d * s
    [] r = 9 -> 1 - ((d + s) % 2)
    [] r = 10 -> d
    [] r = 11 -> IF d + (1 - s) > 0 THEN 1 ELSE 0
    [] r = 12 -> s
    [] r = 13 -> IF s + (1 - d) > 0 THEN 1 ELSE 0
    [] r = 14 -> IF d + s > 0 THEN 1 ELSE 0
    [] r = 15 -> 1

NoSourceRops == {0, 5, 10, 15}

Events(k) == {j \in 1 .. Len(Log) : Log[j].k = k}

(* The destination pixels a call stored to, by the masks of its stores *)
Written ==
  {b \in DstBits :
     \E j \in Events("store") :
       /\ Log[j].i = Dst.widthScanBytes * b[2] + (b[1] \div 8)
       /\ (Log[j].m \div 2 ^ (7 - (b[1] % 8))) % 2 = 1}

Empty(p) == p.width = 0 \/ p.height = 0

----------------------------------------------------------------------------
(* C1: after a binary bitBlt that returns true on planes with disjoint     *)
(* storage, every destination pixel of the clipped rectangle equals        *)
(* f_rop2(D, S) of its old value and the old source pixel at the same      *)
(* offset from the source origin, whatever the two phases.                 *)
ThmC1 ==
  (IsBlt /\ last.res.ret /\ Dst.store # Src.store) =>
    \A b \in ClipSet :
      Pixel(heap, Dst, b[1], b[2]) =
        RopBit(last.rop2, Pixel(last.heap0, Dst, b[1], b[2]),
               Pixel(last.heap0, Src, b[1] + last.xSrc - last.x,
                     b[2] + last.ySrc - last.y))

WitC1 ==
  /\ IsBlt /\ last.res.ret /\ last.rop2 = 6
  /\ last.res.kind = "LeftShift" /\ last.res.extra = 2 /\ last.res.cy = 2
  /\ heap # last.heap0

(* C2: after a binary or unary bitBlt no bit of the destination store      *)
(* outside the clipped rectangle has changed: not beside the rectangle in  *)
(* its first and last bytes, not in the padding bits of a row, not in the  *)
(* rows above and below.                                                   *)
ThmC2 ==
  (IsBlt \/ IsUnary) =>
    /\ \A blk \in Blocks : Len(heap[blk]) = Len(last.heap0[blk])
    /\ \A b \in DstBits \ ClipSet :
         Pixel(heap, Dst, b[1], b[2]) = Pixel(last.heap0, Dst, b[1], b[2])

WitC2 ==
  /\ IsBlt /\ last.res.ret /\ last.rop2 = 3 /\ heap # last.heap0
  /\ last.res.x % 8 # 0 /\ (last.res.x + last.res.cx) % 8 # 0
  /\ last.res.extra >= 1 /\ last.res.cy < Dst.height
  /\ Dst.width < Dst.widthScanBytes * 8

(* C3: a binary bitBlt whose rectangle does not intersect both planes      *)
(* returns false, stores nothing and leaves every byte as it was.          *)
ThmC3 ==
  (IsBlt /\ ClipSet = {}) =>
    /\ ~last.res.ret
    /\ Events("store") = {}
    /\ heap = last.heap0

WitC3 ==
  /\ IsBlt /\ ~last.res.ret /\ last.cx > 0 /\ last.cy > 0
  /\ last.x >= 0 /\ last.x < Dst.width /\ last.y = 0
  /\ last.xSrc >= Src.width /\ last.ySrc = 0

(* C4: with an empty destination or source plane a binary bitBlt returns   *)
(* false and reads and writes no store byte, whatever widthScanBytes and   *)
(* the store pointer are.                                                  *)
ThmC4 ==
  (IsBlt /\ (Empty(Dst) \/ Empty(Src))) =>
    /\ ~last.res.ret
    /\ Log = <<>>
    /\ heap = last.heap0

WitC4 ==
  /\ IsBlt /\ Empty(Dst) /\ Dst.widthScanBytes > 0 /\ Dst.store = NULL
  /\ ~Empty(Src) /\ last.x = 3 /\ last.cx = 12 /\ last.y = 0 /\ last.cy = 1
  /\ last.ySrc = 0

(* C5: the destination pixels a binary bitBlt writes are exactly those of  *)
(* the requested rectangle that lie in the destination plane and whose     *)
(* source pixel lies in the source plane, and clipping keeps the distance  *)
(* between source origin and destination origin.                           *)
ThmC5 ==
  IsBlt =>
    /\ Written = ClipSet
    /\ last.res.ret =>
         /\ last.res.xSrc - last.res.x =
              RectOrg(last.xSrc, last.cx) - RectOrg(last.x, last.cx)
         /\ last.res.ySrc - last.res.y =
              RectOrg(last.ySrc, last.cy) - RectOrg(last.y, last.cy)

WitC5 ==
  /\ IsBlt /\ last.res.ret /\ last.cx < 0
  /\ last.res.x > RectOrg(last.x, last.cx)
  /\ last.res.cx < RectExt(last.cx)
  /\ last.xSrc # last.x

(* C6: a binary bitBlt with rop0, Dn, D or rop1 never calls fetch; with    *)
(* any other rop2 every fetchLogicStore calls fetch exactly once.          *)
ThmC6 ==
  IsBlt =>
    IF last.rop2 \in NoSourceRops
    THEN Events("fetch") = {}
    ELSE /\ \A j \in Events("store") :
              /\ j > 1 /\ Log[j - 1].k = "fetch"
              /\ j > 2 => Log[j - 2].k # "fetch"
         /\ \A j \in Events("fetch") : j < Len(Log) /\ Log[j + 1].k = "store"

WitC6 ==
  /\ IsBlt /\ last.res.ret /\ last.rop2 = 10
  /\ last.res.kind = "RightShift" /\ last.res.extra = 2
  /\ Cardinality(Events("store")) = 6

(* C7: a binary bitBlt with rop0, Dn, D or rop1 reads no byte of the       *)
(* source plane's store, prefetch included.                                *)
CexC7 ==
  (IsBlt /\ last.rop2 \in NoSourceRops) =>
    Events("fetch") \cup Events("prefetch") = {}

(* C8: unary bitBlt sets every pixel of the clipped rectangle to 0 for     *)
(* blackness, to 1 for whiteness and to its complement for dstInvert,      *)
(* changes no other pixel, and returns what binary bitBlt returns for the  *)
(* plane as its own source with rop2 0, 15 and 5.                          *)
UnaryBit(code1, d) ==
  CASE code1 = "blackness" -> 0
    [] code1 = "whiteness" -> 1
    [] code1 = "dstInvert" -> 1 - d

UnaryCode(code1) ==
  CASE code1 = "blackness" -> 0
    [] code1 = "whiteness" -> 15
    [] code1 = "dstInvert" -> 5

ThmC8 ==
  IsUnary =>
    /\ \A b \in DstBits :
         Pixel(heap, Dst, b[1], b[2]) =
           IF InClip(b[1], b[2])
           THEN UnaryBit(last.rop1, Pixel(last.heap0, Dst, b[1], b[2]))
           ELSE Pixel(last.heap0, Dst, b[1], b[2])
    /\ last.res.ret =
         bitBlt(last.heap0, Dst, Dst, last.x, last.y, last.cx, last.cy,
                last.x, last.y, UnaryCode(last.rop1), 0).ret

WitC8 ==
  /\ IsUnary /\ last.res.ret /\ last.rop1 = "whiteness"
  /\ last.res.cx < RectExt(last.cx) /\ last.res.extra >= 1
  /\ heap # last.heap0

(* C9: DSx twice with the same arguments and an unchanged, distinct source *)
(* leaves every byte of the destination store as before the first blit.    *)
SameCall ==
  /\ prev.op = "bitBlt" /\ IsBlt
  /\ last.dst = prev.dst /\ last.src = prev.src
  /\ last.x = prev.x /\ last.y = prev.y /\ last.cx = prev.cx
  /\ last.cy = prev.cy /\ last.xSrc = prev.xSrc /\ last.ySrc = prev.ySrc
  /\ last.rop2 = prev.rop2

ThmC9 ==
  (SameCall /\ last.rop2 = srcInvert /\ Dst.store # Src.store) =>
    heap = prev.heap0

WitC9 ==
  /\ SameCall /\ last.rop2 = srcInvert /\ last.res.ret
  /\ last.heap0 # prev.heap0 /\ last.res.kind = "RightShift"
  /\ last.res.extra = 2

(* C10: srcCopy of a rectangle inside A into B, then srcCopy of the same   *)
(* rectangle back from B into A, leaves every pixel of A unchanged, for    *)
(* every pair of phases.                                                   *)
BackCall ==
  /\ prev.op = "bitBlt" /\ IsBlt
  /\ last.dst = prev.src /\ last.src = prev.dst
  /\ last.x = prev.xSrc /\ last.y = prev.ySrc /\ last.cx = prev.cx
  /\ last.cy = prev.cy /\ last.xSrc = prev.x /\ last.ySrc = prev.y

Inside(org, ext, size) ==
  /\ RectExt(ext) > 0
  /\ 0 <= RectOrg(org, ext)
  /\ RectOrg(org, ext) + RectExt(ext) <= size

RectInside ==
  /\ Inside(last.x, last.cx, Dst.width)
  /\ Inside(last.y, last.cy, Dst.height)
  /\ Inside(last.xSrc, last.cx, Src.width)
  /\ Inside(last.ySrc, last.cy, Src.height)

ThmC10 ==
  (BackCall /\ last.rop2 = srcCopy /\ prev.rop2 = srcCopy /\ RectInside) =>
    heap[Dst.store] = prev.heap0[Dst.store]

WitC10 ==
  /\ BackCall /\ last.rop2 = srcCopy /\ prev.rop2 = srcCopy /\ RectInside
  /\ last.res.ret /\ prev.res.ret /\ last.res.kind = "RightShift"
  /\ last.res.extra = 2 /\ last.res.cy = 2
  /\ heap[Src.store] # prev.heap0[Src.store]

----------------------------------------------------------------------------
(* Vocabulary of the life-cycle properties *)

IsCreate == last.op = "create"

IsCopy == last.op = "copy"

(* ceil(w / 8) *)
RowBytes(w) == (w + 7) \div 8

(* getWidth() == 0, getHeight() == 0 and nothing owned *)
Vacant(p) == p.width = 0 /\ p.height = 0 /\ ~p.autoDelete

Live(b) == alloc[b].news = 1 /\ alloc[b].deletes = 0

Owners(b) == {p \in PlaneIds : planes[p].store = b /\ planes[p].autoDelete}

Users(b) == {p \in PlaneIds : planes[p].store = b}

Other(p) == CHOOSE o \in PlaneIds : o # p

(* C11: create(cx, cy) with |cx| or |cy| not positive returns false and    *)
(* leaves the plane empty, owning nothing, whatever it held before.        *)
CexC11 ==
  IsCreate /\ (RectExt(last.cx) <= 0 \/ RectExt(last.cy) <= 0) =>
    ~last.res.ret /\ Vacant(Dst)

(* C12: create(cx, cy) with |cx| > 0, |cy| > 0 and a successful new[]      *)
(* returns true and leaves width |cx|, height |cy|, ceil(|cx| / 8) bytes   *)
(* a row, a fresh store of that many bytes times |cy| which the plane      *)
(* owns; the block the plane owned before is released and no array of a    *)
(* caller is.                                                              *)
ThmC12 ==
  IsCreate /\ RectExt(last.cx) > 0 /\ RectExt(last.cy) > 0 /\ ~last.res.threw =>
    /\ last.res.ret
    /\ Dst.width = RectExt(last.cx) /\ Dst.height = RectExt(last.cy)
    /\ Dst.widthScanBytes = RowBytes(RectExt(last.cx))
    /\ Dst.autoDelete
    /\ Dst.store \in FreeStore /\ Live(Dst.store)
    /\ Users(Dst.store) = {last.dst}
    /\ Len(heap[Dst.store]) = RowBytes(RectExt(last.cx)) * RectExt(last.cy)
    /\ \A b \in FreeStore : Live(b) => Owners(b) # {}
    /\ \A b \in Blocks : alloc[b].deletes = 0

WitC12 ==
  /\ IsCreate /\ last.res.ret /\ last.cx = -SmallW
  /\ prev.op = "create" /\ prev.res.ret /\ prev.dst = last.dst
  /\ \E b \in FreeStore : alloc[b].deletes = 1

ThmC14 ==
  /\ IsCopy =>
       /\ Dst.width = Src.width /\ Dst.height = Src.height
       /\ Dst.widthScanBytes = Src.widthScanBytes
       /\ Dst.autoDelete = Src.autoDelete
       /\ IF Src.autoDelete
          THEN /\ Dst.store # Src.store /\ Live(Dst.store)
               /\ heap[Dst.store] = heap[Src.store]
          ELSE Dst.store = Src.store
  /\ (IsBlt \/ IsUnary) /\ prev.op = "copy" =>
       IF Dst.autoDelete
       THEN heap[planes[Other(last.dst)].store]
              = last.heap0[planes[Other(last.dst)].store]
       ELSE \A X \in 0 .. Dst.width - 1, Y \in 0 .. Dst.height - 1 :
              Pixel(heap, planes[Other(last.dst)], X, Y) = Pixel(heap, Dst, X, Y)

WitC14 ==
  /\ IsUnary /\ last.res.ret /\ prev.op = "copy"
  /\ Dst.autoDelete /\ planes[Other(last.dst)].autoDelete
  /\ heap[Dst.store] # last.heap0[Dst.store]

(* C15: a block new[] handed out is owned by exactly one plane until it is *)
(* released, is released at most once, and no plane has it for its store   *)
(* afterwards; an array of a caller is never released.                     *)
ThmC15 ==
  /\ \A b \in FreeStore :
       /\ alloc[b].news <= 1 /\ alloc[b].deletes <= alloc[b].news
       /\ Live(b) => Cardinality(Owners(b)) = 1 /\ Users(b) = Owners(b)
       /\ ~Live(b) => Users(b) = {}
  /\ \A b \in Blocks : alloc[b].news = 0 /\ alloc[b].deletes = 0

WitC15 ==
  /\ \E b \in FreeStore : alloc[b].deletes = 1
  /\ \E b \in FreeStore : Live(b) /\ Owners(b) = {"B"}
  /\ planes["A"].store = NULL /\ prev.op = "copy"

(* C16: every plane has width 0 and height 0, or a positive width and      *)
(* height, ceil(width / 8) bytes a row and a store that is not released    *)
(* and holds at least that many bytes times the height.                    *)
ThmC16 ==
  \A p \in PlaneIds :
    \/ planes[p].width = 0 /\ planes[p].height = 0
    \/ /\ planes[p].width > 0 /\ planes[p].height > 0
       /\ planes[p].widthScanBytes = RowBytes(planes[p].width)
       /\ planes[p].store # NULL
       /\ alloc[planes[p].store].deletes = 0
       /\ Len(heap[planes[p].store])
            >= planes[p].widthScanBytes * planes[p].height

WitC16 ==
  /\ pc = "once" /\ last.res.ret
  /\ planes["A"].autoDelete /\ planes["A"].width = 9
  /\ planes["B"].width = SmallW /\ ~planes["B"].autoDelete

----------------------------------------------------------------------------
(* Vocabulary of the order of accesses *)

Stores == Events("store")

Reads == Events("fetch") \cup Events("prefetch")

(* The scan line during which event j of the log happened *)
RowOf(j) == Cardinality({r \in Events("row") : r < j})

(* The destination bytes that hold a pixel of the clipped rectangle *)
ClipBytes == {Dst.widthScanBytes * b[2] + (b[1] \div 8) : b \in ClipSet}

(* C17: a successful binary bitBlt stores to strictly increasing           *)
(* destination addresses, once to every byte that holds a pixel of the     *)
(* clipped rectangle, cy' * (extraBytes + 1) stores in all; the source     *)
(* reads of one scan line have strictly increasing addresses and no read   *)
(* of a later scan line has a lower address than one of an earlier line.   *)
ThmC17 ==
  IsBlt /\ last.res.ret =>
    /\ \A j \in Stores, k \in Stores : j < k => Log[j].i < Log[k].i
    /\ Cardinality(Stores) = last.res.cy * (last.res.extra + 1)
    /\ {Log[j].i : j \in Stores} = ClipBytes
    /\ Log[Len(Log)].k = "store"
    /\ last.rop2 \notin NoSourceRops =>
         \A j \in Reads, k \in Reads :
           j < k => IF RowOf(j) = RowOf(k)
                    THEN Log[j].i < Log[k].i
                    ELSE Log[j].i <= Log[k].i

WitC17 ==
  /\ IsBlt /\ last.res.ret /\ last.rop2 = srcCopy
  /\ last.res.kind = "LeftShift" /\ last.res.extra = 2 /\ last.res.cy = 2
  /\ Cardinality(Stores) = 6 /\ Cardinality(Reads) = 8

(* C20: with d = (x & 7) - (xSrc & 7) of the clipped origins, bitBlt uses  *)
(* PhaseAlign iff d = 0, RightShift with shiftCount d iff d > 0 and        *)
(* LeftShift with shiftCount -d iff d < 0, so that a shifting fetch always *)
(* runs with a shiftCount of 1 to 7.                                       *)
ThmC20 ==
  (IsBlt \/ IsUnary) /\ last.res.ret =>
    LET d == (last.res.x % 8) - (last.res.xSrc % 8)
    IN /\ last.res.kind = "PhaseAlign" <=> d = 0
       /\ last.res.kind = "RightShift" <=> d > 0
       /\ last.res.kind = "LeftShift" <=> d < 0
       /\ d > 0 => last.res.shiftCount = d
       /\ d < 0 => last.res.shiftCount = -d
       /\ Events("fetch") # {} /\ last.res.kind # "PhaseAlign" =>
            last.res.shiftCount \in 1 .. 7

WitC20 ==
  /\ IsBlt /\ last.res.ret /\ last.res.kind = "LeftShift"
  /\ last.res.shiftCount = 7 /\ Events("fetch") # {}
  /\ last.res.x # last.x

----------------------------------------------------------------------------
(* C18: a srcCopy bitBlt of the 1 x 1 rectangle at (x, y) of a non-empty   *)
(* plane P, 0 <= x < width, 0 <= y < height, to (0, 0) of a plane of one   *)
(* pixel returns true, leaves pixel (x, y) of P in bit 7 of the scratch    *)
(* byte and changes neither its other seven bits nor P.                    *)
ThmC18 ==
  /\ IsBlt /\ last.rop2 = srcCopy
  /\ last.x = 0 /\ last.y = 0 /\ last.cx = 1 /\ last.cy = 1
  /\ Dst.width = 1 /\ Dst.height = 1
  /\ last.xSrc \in 0 .. Src.width - 1 /\ last.ySrc \in 0 .. Src.height - 1
  => /\ last.res.ret
     /\ heap[Dst.store][1] \div 128
          = (last.heap0[Src.store][Src.widthScanBytes * last.ySrc
                                     + (last.xSrc \div 8) + 1]
               \div 2 ^ (7 - (last.xSrc % 8))) % 2
     /\ heap[Dst.store][1] % 128 = last.heap0[Dst.store][1] % 128
     /\ heap[Src.store] = last.heap0[Src.store]

WitC18 ==
  /\ IsBlt /\ last.res.ret /\ Dst.width = 1 /\ Src.width = MaxW
  /\ last.xSrc > 8 /\ last.xSrc % 8 # 0 /\ last.ySrc = 1
  /\ last.heap0[Dst.store] = <<85>> /\ heap[Dst.store] = <<213>>

(* C19: once the pattern plane has been copied to every tile origin of the *)
(* created image, pixel (x, y) of the image is pixel (x mod pw, y mod ph)  *)
(* of the pattern, whatever new[] left in the store; with the 2 x 2        *)
(* pattern {0x40, 0x80} that is (x & 1) XOR (y & 1).                       *)
ThmC19 ==
  pc = "tiled" =>
    \A X \in 0 .. planes["B"].width - 1, Y \in 0 .. planes["B"].height - 1 :
      /\ Pixel(heap, planes["B"], X, Y)
           = Pixel(heap, planes["A"], X % planes["A"].width,
                   Y % planes["A"].height)
      /\ heap[planes["A"].store] = <<64, 128>> =>
           Pixel(heap, planes["B"], X, Y) = ((X % 2) + (Y % 2)) % 2

WitC19 ==
  /\ pc = "tiled" /\ heap[planes["A"].store] = <<64, 128>>
  /\ planes["B"].width = 8 /\ planes["B"].height = 8
  /\ heap[planes["B"].store] = <<85, 170, 85, 170, 85, 170, 85, 170>>
  /\ Garbage(165, 8) # heap[planes["B"].store]

----------------------------------------------------------------------------
(* The member functions one at a time (SpecUnit) *)

U == last.res

Lane(v, b) == (v \div 2 ^ b) % 2

Lanes == 0 .. ScanBits - 1

SrcByte(i) == Rd(last.heap0, Src.store, i, 0)

DstByte(i) == Rd(last.heap0, Dst.store, i, 0)

(* C21: RightShift::fetch with shift count k in 1..7 reads the byte lo at  *)
(* the cursor, advances the cursor by one, returns                         *)
(* ((carry << (8 - k)) | (lo >> k)) mod 256 of the carry from before the   *)
(* call and sets carry to lo; RightShift's prefetch changes neither the    *)
(* cursor nor the carry                                                    *)
ThmC21 ==
  /\ (last.op = "fetch" /\ U.kind = "RightShift") =>
       LET lo == SrcByte(U.pstore0)
       IN /\ U.log = <<Ev("fetch", U.pstore0, 0)>>
          /\ U.pstore = U.pstore0 + 1
          /\ U.val = ((U.carry0 * 2 ^ (ScanBits - U.shiftCount)) % ScanMod)
                       + (lo \div 2 ^ U.shiftCount)
          /\ U.carry = lo
  /\ (last.op = "prefetch" /\ U.kind = "RightShift") =>
       /\ U.log = <<>>
       /\ U.pstore = U.pstore0
       /\ U.carry = U.carry0

WitC21 ==
  /\ last.op = "fetch"
  /\ U.kind = "RightShift"
  /\ U.shiftCount = 3
  /\ U.carry0 = 129
  /\ SrcByte(U.pstore0) = 202
  /\ U.val = 57

(* C22: LeftShift::prefetch sets carry to the byte at the cursor without   *)
(* moving the cursor; LeftShift::fetch with shift count k in 1..7 advances *)
(* the cursor by one, reads the byte lo there, returns                     *)
(* ((carry << k) | (lo >> (8 - k))) mod 256 of the carry from before the   *)
(* call and sets carry to lo                                               *)
ThmC22 ==
  /\ (last.op = "prefetch" /\ U.kind = "LeftShift") =>
       /\ U.log = <<Ev("prefetch", U.pstore0, 0)>>
       /\ U.pstore = U.pstore0
       /\ U.carry = SrcByte(U.pstore0)
  /\ (last.op = "fetch" /\ U.kind = "LeftShift") =>
       LET lo == SrcByte(U.pstore0 + 1)
       IN /\ U.log = <<Ev("fetch", U.pstore0 + 1, 0)>>
          /\ U.pstore = U.pstore0 + 1
          /\ U.val = ((U.carry0 * 2 ^ U.shiftCount) % ScanMod)
                       + (lo \div 2 ^ (ScanBits - U.shiftCount))
          /\ U.carry = lo

WitC22 ==
  /\ last.op = "fetch"
  /\ U.kind = "LeftShift"
  /\ U.shiftCount = 3
  /\ U.carry0 = 129
  /\ U.pstore0 = 0
  /\ SrcByte(1) = 202
  /\ U.val = 14

(* The byte a single fetch returns to the raster operation *)
Fetched ==
  CASE U.kind = "PhaseAlign" -> SrcByte(U.pstore0)
    [] U.kind = "RightShift" ->
         ((U.carry0 * 2 ^ (ScanBits - U.shiftCount)) % ScanMod)
           + (SrcByte(U.pstore0) \div 2 ^ U.shiftCount)
    [] U.kind = "LeftShift" ->
         ((U.carry0 * 2 ^ U.shiftCount) % ScanMod)
           + (SrcByte(U.pstore0 + 1) \div 2 ^ (ScanBits - U.shiftCount))

(* The effect of fetchLogicStore with mask m *)
Stored(m) ==
  /\ \A b \in Lanes :
       Lane(Rd(heap, Dst.store, U.store0, 0), b) =
         IF Lane(m, b) = 1
         THEN RopBit(last.rop2, Lane(DstByte(U.store0), b), Lane(Fetched, b))
         ELSE Lane(DstByte(U.store0), b)
  /\ \A i \in 0 .. Len(heap[Dst.store]) - 1 :
       i # U.store0 => Rd(heap, Dst.store, i, 0) = DstByte(i)
  /\ heap[Src.store] = last.heap0[Src.store]
  /\ U.store = U.store0 + 1
  /\ Cardinality(Events("fetch")) =
       IF last.rop2 \in NoSourceRops THEN 0 ELSE 1
  /\ U.pstore = U.pstore0 + Cardinality(Events("fetch"))

(* C23: fetchLogicStore(mask) replaces the byte d at the destination       *)
(* cursor by (d & ~mask) | (mask & f(d, s)), d being the byte before the   *)
(* store and s the result of a single fetch taken only if f references S,  *)
(* and advances the destination cursor by one; fetchLogicStore() has the   *)
(* effect of fetchLogicStore(0xFF)                                         *)
ThmC23 ==
  /\ last.op = "storeMask" => Stored(U.mask)
  /\ last.op = "store" => Stored(ScanMax)

WitC23 ==
  /\ last.op = "storeMask"
  /\ U.mask = 60
  /\ last.rop2 = srcInvert
  /\ U.kind = "RightShift"
  /\ DstByte(U.store0) = 51
  /\ Rd(heap, Dst.store, U.store0, 0) \notin {51, 0, ScanMax}

(* C29: each bit lane of the byte vrop[r] returns is bit 2 * s_bit + d_bit *)
(* of r; vrop[15 - r] returns the complement of vrop[r]; srcCopy is 12,    *)
(* srcAnd 8, srcPaint 14, srcInvert 6, notSrcCopy 3, blackness 0,          *)
(* dstInvert 5 and whiteness 15                                            *)
ThmC29 ==
  /\ last.op = "rop" =>
       /\ \A b \in Lanes :
            Lane(U.val, b) =
              Lane(last.rop2, 2 * Lane(SrcByte(1), b) + Lane(DstByte(0), b))
       /\ U.val + vrop(ropMax - 1 - last.rop2, UnitCursors(0, 1, 0),
                       UnitBlt(ropMax - 1 - last.rop2, "PhaseAlign", 0)).val
            = ScanMax
  /\ srcCopy = 12 /\ Enumerator(Alias.srcCopy) = 12
  /\ Enumerator(Alias.srcAnd) = 8
  /\ Enumerator(Alias.srcPaint) = 14
  /\ srcInvert = 6 /\ Enumerator(Alias.srcInvert) = 6
  /\ Enumerator(Alias.notSrcCopy) = 3
  /\ Enumerator(Alias.blackness) = 0 /\ Rop2Of("blackness") = 0
  /\ Enumerator(Alias.dstInvert) = 5 /\ Rop2Of("dstInvert") = 5
  /\ Enumerator(Alias.whiteness) = 15 /\ Rop2Of("whiteness") = 15

WitC29 ==
  /\ last.op = "rop"
  /\ last.rop2 = 2
  /\ DstByte(0) = 51
  /\ SrcByte(1) = 85
  /\ U.val = 34

----------------------------------------------------------------------------
(* The cursors at the rows of a blit (Spec) *)

Rows == Events("row")

(* The first byte of row r of the clipped rectangle, in either store *)
DstRow(r) == Dst.widthScanBytes * (last.res.y + r) + (last.res.x \div ScanBits)

SrcRow(r) ==
  Src.widthScanBytes * (last.res.ySrc + r) + (last.res.xSrc \div ScanBits)

(* C24 as stated: for every successful binary bitBlt and every rop2, at    *)
(* the start of row r the destination cursor is findBits(x', y' + r) and   *)
(* the source cursor is src.findBits(xSrc', ySrc' + r)                     *)
CexC24 ==
  IsBlt /\ last.res.ret =>
    \A j \in Rows :
      /\ Log[j].i = DstRow(RowOf(j))
      /\ Log[j].m = SrcRow(RowOf(j))

(* C24, amended: at the start of row r the destination cursor is           *)
(* findBits(x', y' + r) for every rop2; the source cursor is               *)
(* src.findBits(xSrc', ySrc' + r) for the rop2 codes that reference S, and *)
(* src.findBits(xSrc', ySrc') + r * (src.row_bytes - 1 - extraBytes) for   *)
(* the codes 0, 5, 10 and 15, which never fetch                            *)
ThmC24 ==
  IsBlt /\ last.res.ret =>
    /\ Cardinality(Rows) = last.res.cy
    /\ \A j \in Rows :
         /\ Log[j].i = DstRow(RowOf(j))
         /\ Log[j].m =
              IF last.rop2 \in NoSourceRops
              THEN SrcRow(0)
                     + RowOf(j) * (Src.widthScanBytes - 1 - last.res.extra)
              ELSE SrcRow(RowOf(j))

WitC24 ==
  /\ IsBlt /\ last.res.ret /\ last.rop2 = srcCopy
  /\ last.res.kind = "LeftShift" /\ last.res.extra = 1 /\ last.res.cy = 2
  /\ Src.widthScanBytes = 3
  /\ \E j \in Rows : RowOf(j) = 1 /\ Log[j].m = SrcRow(1) /\ Log[j].m > 2

----------------------------------------------------------------------------
(* The assertions of bitBlt (SpecInt) *)

(* C25: for every argument tuple of w-bit signed integers, negation and    *)
(* subtraction taken modulo 2^w, every assertion executed by binary bitBlt *)
(* holds: cx >= 0 and cy >= 0 after the normalisation, xOff >= 0 and       *)
(* yOff >= 0, and x >= 0, xSrc >= 0, cx > 0 (y >= 0, ySrc >= 0, cy > 0)    *)
(* after the clipping of the origins                                       *)
CexC25 == IsBlt => last.res.asserts

----------------------------------------------------------------------------
(* The bytes a blit touches, and its return value *)

(* C26: during every binary bitBlt every source byte read by prefetch or   *)
(* fetch lies inside the source plane's store, at an index i with          *)
(* 0 <= i < src.row_bytes * src.height                                     *)
CexC26 ==
  IsBlt =>
    \A j \in Reads :
      /\ 0 <= Log[j].i
      /\ Log[j].i < Src.widthScanBytes * Src.height

(* C27: during every binary bitBlt every destination byte read or written  *)
(* through the Blt cursor lies inside the destination plane's store, at an *)
(* index i with 0 <= i < row_bytes * height, and within the range          *)
(* [row_bytes * Y + (x' >> 3), row_bytes * Y + (xMax >> 3)] of a row Y of  *)
(* the clipped rectangle                                                   *)
ThmC27 ==
  IsBlt =>
    \A j \in Stores :
      /\ 0 <= Log[j].i
      /\ Log[j].i < Dst.widthScanBytes * Dst.height
      /\ Log[j].i < Len(last.heap0[Dst.store])
      /\ \E Y \in last.res.y .. last.res.y + last.res.cy - 1 :
           /\ Dst.widthScanBytes * Y + (last.res.x \div ScanBits) <= Log[j].i
           /\ Log[j].i <=
                Dst.widthScanBytes * Y
                  + ((last.res.x + last.res.cx - 1) \div ScanBits)

WitC27 ==
  /\ IsBlt /\ last.res.ret /\ last.res.cy = 2 /\ last.res.extra = 2
  /\ Dst.widthScanBytes = 3
  /\ \E j \in Stores : Log[j].i = Dst.widthScanBytes * Dst.height - 1

(* C30: binary bitBlt returns true if and only if the normalised rectangle *)
(* has a pixel inside the destination plane whose source pixel is inside   *)
(* the source plane; when it returns true the clipped extents are at least *)
(* 1 and at least one destination byte is stored                           *)
ThmC30 ==
  IsBlt =>
    /\ last.res.ret <=> ClipSet # {}
    /\ last.res.ret =>
         /\ last.res.cx >= 1
         /\ last.res.cy >= 1
         /\ Stores # {}

WitC30 ==
  /\ IsBlt /\ last.res.ret
  /\ last.cx < 0 /\ last.x - 3 < 0
  /\ last.res.cx = 2 /\ Cardinality(ClipSet) = 2 * last.res.cy
  /\ Stores # {}

----------------------------------------------------------------------------
(* The carry of the right-shift fetcher *)

CarryValues == {0, ScanMax}

(* The scan lines of the last call run again from the heap before it, the  *)
(* carry set to kv[r] before the first fetch of row r                     *)
RECURSIVE ScanLinesCarry(_, _, _, _)
ScanLinesCarry(s, c, cy, kv) ==
  IF cy = 0 THEN s
  ELSE Bind(ScanLine([s EXCEPT !.carry = kv[Len(kv) - cy + 1]], c),
            LAMBDA t : ScanLinesCarry(t, c, cy - 1, kv))

Rerun(kv, oob) ==
  ScanLinesCarry(
    Cursors(last.heap0, Dst, Src,
            [org |-> last.res.x, orgSrc |-> last.res.xSrc],
            [org |-> last.res.y, orgSrc |-> last.res.ySrc]),
    BltSetup(Dst, Src, last.res.x, last.res.cx, last.res.xSrc, last.rop2, oob),
    last.res.cy, kv).heap[Dst.store]

(* C28: the destination store after a binary bitBlt that uses the          *)
(* right-shift fetcher does not depend on the value the carry holds at the *)
(* first fetch of any row                                                  *)
ThmC28 ==
  (IsBlt /\ last.res.ret /\ last.res.kind = "RightShift") =>
    /\ \A oob \in Beyond :
         \A kv \in [1 .. last.res.cy -> CarryValues] :
           Rerun(kv, oob) = Rerun([r \in 1 .. last.res.cy |-> 0], oob)
    /\ \E oob \in Beyond :
         heap[Dst.store] = Rerun([r \in 1 .. last.res.cy |-> 0], oob)

WitC28 ==
  /\ IsBlt /\ last.res.ret /\ last.res.kind = "RightShift"
  /\ last.res.cy = 2 /\ last.res.extra = 1 /\ last.rop2 = srcCopy
  /\ heap[Dst.store] # last.heap0[Dst.store]
  /\ heap[Dst.store] = Rerun([r \in 1 .. 2 |-> ScanMax], 0)
  /\ \E j \in Events("fetch") :
       RowOf(j) = 1 /\ Rd(last.heap0, Src.store, Log[j].i, 0) # 0

============================================================================
